---------------------------- MODULE Spec2Model ----------------------------
(***************************************************************************)
(* capa-iam-controller: the AWSMachineTemplate and AWSManagedControlPlane  *)
(* reconcilers, the finalizer retry loop (removeFinalizer) and the object  *)
(* store and IAM service they act on.                                      *)
(*                                                                         *)
(* A reconcile is a sequence of steps, one per remote call; the steps of   *)
(* different reconciles and of the environment (users deleting objects,    *)
(* other controllers releasing their finalizers) interleave freely.        *)
(***************************************************************************)
EXTENDS Naturals, FiniteSets, Sequences, TLC

(***************************************************************************)
(* Bounds of the model.                                                    *)
(***************************************************************************)
\* Remote calls that may fail for no reason of the model's (throttling, a
\* network error) in one behaviour of Spec.
MaxFaults == 1
\* The same budget for the removeFinalizer harness SpecRF, which has to be
\* able to answer every attempt of the loop with a failure.
MaxPatchFaults == 5

(***************************************************************************)
(* Program constants.                                                      *)
(***************************************************************************)
maxPatchRetries == 5

ControlPlaneRole == "control-plane"
BastionRole == "bastion"
IRSARole == "irsa-role"

FinalizerName(roleName) ==
    <<"capa-iam-controller.finalizers.giantswarm.io", roleName>>

\* A finalizer that belongs to another controller (cluster-api-provider-aws
\* keeps one on every AWSCluster).
OtherFinalizer == <<"awscluster.infrastructure.cluster.x-k8s.io", "">>

(***************************************************************************)
(* The objects of the store and the reconciles.                            *)
(***************************************************************************)
Tmpls == {"tmplA", "tmplB"}
AWSCluster == "awsCluster"
ConfigMap == "cluster-values"
EKS == "eks"
Objects == Tmpls \cup {AWSCluster, ConfigMap, EKS}
Procs == Tmpls \cup {EKS}

\* The cluster the two templates, the AWSCluster and the ConfigMap belong
\* to, and the cluster of the AWSManagedControlPlane.
ClusterOf(o) == IF o = EKS THEN "eks1" ELSE "c1"

VARIABLES
    store,              \* object |-> [phase, fins]: the object store
    tmplCfg,            \* reconciled object |-> [created, watch, roleLabel, profile]: labels and spec
    enableRoute53Role,  \* AWSMachineTemplateReconciler.EnableRoute53Role
    eksRoleName,        \* AWSManagedControlPlane.Spec.RoleName != nil
    iamRoles,           \* names of the main roles that exist in IAM
    irsaRoles,          \* clusters whose IRSA catalog roles exist in IAM
    pc,                 \* reconcile |-> its position
    mem,                \* reconcile |-> finalizers of its in-memory copy of the reconciled object
    obj,                \* reconcile |-> the object removeFinalizer works on, [name, fins]
    i,                  \* reconcile |-> removeFinalizer's loop variable
    guard,              \* reconcile |-> answer of isRoleUsedElsewhere in this reconcile
    calls,              \* reconcile |-> IAM service calls made in this reconcile
    patched,            \* reconcile |-> objects a finalizer patch request was sent for
    result,             \* reconcile |-> what the last reconcile returned
    failed,             \* reconcile |-> the calls that failed in this reconcile
    rf,                 \* reconcile |-> history of the current removeFinalizer call
    addf,               \* reconcile |-> history of the finalizer-add patch of this reconcile
    faultsLeft          \* remote calls that may still fail spontaneously

\* One IRSA catalog role in IAM and the reconciles that ensure it.
VARIABLES
    role,               \* the role in IAM: [exists, trust, tags, policies]
    profile,            \* the instance profile of its name: [exists, attached, tags]
    customTags,         \* IAMServiceConfig.CustomTags: AWSCluster.Spec.AdditionalTags
    oldIrsaDomain,      \* key.GetAdditionalIrsaDomain(awsMachineTemplate), "" when none
    epc,                \* worker |-> its position in the role's reconciliation
    seenTrust,          \* worker |-> the issuers of the trust policy it read last
    ecalls,             \* worker |-> the mutating IAM calls it issued in this run
    eanswers,           \* worker |-> the answers other than success it got in this run
    eret,               \* worker |-> what its last run returned
    runs                \* worker |-> the runs it has started

storeVars == <<store, tmplCfg, enableRoute53Role, eksRoleName>>
iamVars == <<iamRoles, irsaRoles>>
localVars == <<pc, mem, obj, i>>
histVars == <<guard, calls, patched, result, failed, rf, addf>>
ensVars == <<role, profile, customTags, oldIrsaDomain, epc, seenTrust, ecalls, eanswers, eret, runs>>
vars == <<storeVars, iamVars, localVars, histVars, faultsLeft, ensVars>>

NoObj == [name |-> "none", fins |-> {}]
NoAdd == [requests |-> 0, rereads |-> 0, answers |-> {}]
NoRF == [ret |-> "none", iterations |-> 0, requests |-> 0, rereads |-> 0, answers |-> {}, target |-> "none"]

(***************************************************************************)
(* The object store.                                                       *)
(***************************************************************************)
Exists(o) == store[o].phase # "gone"
Deleting(o) == store[o].phase = "deleting"

\* The store removes an object that is being deleted once its last
\* finalizer is gone.
Settle(rec) ==
    IF rec.phase = "deleting" /\ rec.fins = {}
    THEN [phase |-> "gone", fins |-> {}]
    ELSE rec

\* patch.Helper.Patch sends a JSON merge patch of the difference between
\* the object as it was when the helper was made (before) and as it is now
\* (after).  A changed finalizer list is sent whole.  The store refuses,
\* with Invalid, a write that adds a finalizer to an object being deleted.
PatchAnswer(o, after) ==
    IF ~Exists(o) THEN "NotFound"
    ELSE IF Deleting(o) /\ ~(after \subseteq store[o].fins) THEN "Invalid"
    ELSE "ok"

PatchApply(o, after) ==
    [store EXCEPT ![o] = Settle([@ EXCEPT !.fins = after])]

\* key.GetAWSClusterByName: lists the AWSClusters of the cluster and wants
\* exactly one.
GetAWSClusterByName == Exists(AWSCluster)

(***************************************************************************)
(* The shared-resource guard.                                              *)
(***************************************************************************)
\* The guard is given the role name only (main.go:282), not the template
\* that is being deleted, which is in the store with that role name itself:
\* the references that keep the role are those of the templates in the
\* store that are not being deleted, whatever their labels.
isRoleUsedElsewhere(roleName) ==
    \E u \in Tmpls :
        /\ store[u].phase = "live"
        /\ tmplCfg[u].profile = roleName

(***************************************************************************)
(* Leaving a reconcile, and spontaneous failures.                          *)
(***************************************************************************)
Return(p, res, at) ==
    /\ pc' = [pc EXCEPT ![p] = "done"]
    /\ mem' = [mem EXCEPT ![p] = {}]
    /\ obj' = [obj EXCEPT ![p] = NoObj]
    /\ i' = [i EXCEPT ![p] = 0]
    /\ result' = [result EXCEPT ![p] = res]
    /\ failed' = [failed EXCEPT ![p] = IF at = "none" THEN @ ELSE @ \cup {at}]

\* A reconcile returns before the two paths part: nothing has failed in it
\* but, at most, the call it returns the error of.
ReturnFirst(p, res, at) ==
    /\ pc' = [pc EXCEPT ![p] = "done"]
    /\ mem' = [mem EXCEPT ![p] = {}]
    /\ obj' = [obj EXCEPT ![p] = NoObj]
    /\ i' = [i EXCEPT ![p] = 0]
    /\ result' = [result EXCEPT ![p] = res]
    /\ failed' = [failed EXCEPT ![p] = IF at = "none" THEN {} ELSE {at}]

Goto(p, next) ==
    /\ pc' = [pc EXCEPT ![p] = next]
    /\ UNCHANGED <<result, failed>>

\* A reconcile goes past its lookups: it has returned nothing yet.
Begin(p, next) ==
    /\ pc' = [pc EXCEPT ![p] = next]
    /\ result' = [result EXCEPT ![p] = "none"]
    /\ failed' = [failed EXCEPT ![p] = {}]
    /\ UNCHANGED <<obj, i>>

Fault ==
    /\ faultsLeft > 0
    /\ faultsLeft' = faultsLeft - 1

NoFault == UNCHANGED faultsLeft

Called(p, call) == calls' = [calls EXCEPT ![p] = @ \cup {call}]

(***************************************************************************)
(* removeFinalizer (main.go:412-451).                                      *)
(***************************************************************************)
\* Where the deletion reconcile goes on after removeFinalizer returned nil.
AfterRemoveFinalizer_skipTemplate(o) ==
    CASE o = AWSCluster -> "delete_configmap"
      [] o \in Tmpls -> "delete_configmap"
      [] OTHER -> "delete_done"

AfterRemoveFinalizer(o) ==
    CASE o = AWSCluster -> "delete_template"
      [] o \in Tmpls -> "delete_configmap"
      [] OTHER -> "delete_done"

\* The call removeFinalizer(object) up to the loop: the finalizer is not
\* on the in-memory object, and it returns nil, or the loop starts.
removeFinalizer(p, o, fins) ==
    /\ rf' = [rf EXCEPT ![p] = [NoRF EXCEPT !.target = o,
                 !.iterations = IF FinalizerName(ControlPlaneRole) \in fins THEN 1 ELSE 0,
                 !.ret = IF FinalizerName(ControlPlaneRole) \in fins THEN "none" ELSE "nil"]]
    /\ IF FinalizerName(ControlPlaneRole) \in fins
       THEN /\ pc' = [pc EXCEPT ![p] = "rf_patch"]
            /\ obj' = [obj EXCEPT ![p] = [name |-> o, fins |-> fins]]
            /\ i' = [i EXCEPT ![p] = 1]
       ELSE /\ pc' = [pc EXCEPT ![p] = AfterRemoveFinalizer(o)]
            /\ obj' = [obj EXCEPT ![p] = NoObj]
            /\ i' = [i EXCEPT ![p] = 0]
    /\ UNCHANGED <<result, failed>>

\* removeFinalizer returns its error, and so does the reconcile.
RFError(p, answer, sent) ==
    /\ Return(p, "err", "removeFinalizer")
    /\ rf' = [rf EXCEPT ![p] = [@ EXCEPT !.ret = "err",
                 !.requests = @ + sent,
                 !.answers = @ \cup {answer}]]

\* Every iteration that is left after a request that was answered ok sends
\* its patch again.
RFNext_resending(p, answer, sent) ==
    /\ i' = [i EXCEPT ![p] = 0]
    /\ obj' = [obj EXCEPT ![p] = NoObj]
    /\ pc' = [pc EXCEPT ![p] = AfterRemoveFinalizer(obj[p].name)]
    /\ rf' = [rf EXCEPT ![p] = [@ EXCEPT
                 !.ret = "nil",
                 !.iterations = maxPatchRetries,
                 !.requests = @ + sent * (maxPatchRetries - i[p] + 1),
                 !.answers = @ \cup answer]]
    /\ UNCHANGED <<result, failed>>

\* An iteration whose Patch returned nil.  Neither branch of lines 437-447
\* is taken and the loop goes on: in every iteration that is left the
\* in-memory object is without the finalizer before and after
\* RemoveFinalizer, so the helper finds no difference, sends nothing and
\* returns nil.  These iterations touch nothing but i; they are taken here
\* in one step, up to "successfully removed finalizer" and nil.
RFNext(p, answer, sent) ==
    /\ i' = [i EXCEPT ![p] = 0]
    /\ obj' = [obj EXCEPT ![p] = NoObj]
    /\ pc' = [pc EXCEPT ![p] = AfterRemoveFinalizer(obj[p].name)]
    /\ rf' = [rf EXCEPT ![p] = [@ EXCEPT
                 !.ret = "nil",
                 !.iterations = maxPatchRetries,
                 !.requests = @ + sent,
                 !.answers = @ \cup answer]]
    /\ UNCHANGED <<result, failed>>

\* The answer can be retried and attempts are left: the object is read again.
RFRetry(p, after, answer) ==
    /\ pc' = [pc EXCEPT ![p] = "rf_get"]
    /\ obj' = [obj EXCEPT ![p].fins = after]
    /\ rf' = [rf EXCEPT ![p] = [@ EXCEPT !.requests = @ + 1,
                 !.answers = @ \cup {answer}]]
    /\ UNCHANGED <<i, result, failed>>

\* Lines 433-435: the failures the loop tries again are those
\* k8serrors.IsInvalid holds of.
Retryable_conflict(answer) == answer \in {"Invalid", "Conflict"}

Retryable(answer) == answer = "Invalid"

\* Line 437: i < maxPatchRetries.
AttemptsLeft_always(n) == TRUE

AttemptsLeft(n) == n < maxPatchRetries

\* A patch request fails with the store's own answer, or spontaneously:
\* Invalid is HTTP 422 (StatusReasonInvalid), Conflict is HTTP 409 (a
\* resourceVersion mismatch), ServerError stands for every other failure.
PatchFaults == {"Invalid", "Conflict", "ServerError"}

PatchAnswers(o, after) ==
    {PatchAnswer(o, after)} \cup (IF faultsLeft > 0 THEN PatchFaults ELSE {})

\* The store after a patch request: only a request that is answered ok
\* is applied.
StoreAfter_partial(o, after, answer) ==
    IF answer \in {"ok", "Invalid"} /\ Exists(o) THEN PatchApply(o, after) ELSE store

StoreAfter(o, after, answer) ==
    IF answer = "ok" THEN PatchApply(o, after) ELSE store

\* One iteration of the loop, lines 419-447: NewHelper, RemoveFinalizer,
\* Patch, and what follows from the answer.
rf_patch(p) ==
    /\ pc[p] = "rf_patch"
    /\ LET o == obj[p].name
           before == obj[p].fins
           after == before \ {FinalizerName(ControlPlaneRole)}
       IN
       \/ \* nothing changed: the helper sends no request and returns nil
          /\ before = after
          /\ RFNext(p, {}, 0)
          /\ UNCHANGED <<store, patched, mem>>
          /\ NoFault
       \/ \* a request is sent
          /\ before # after
          /\ \E answer \in PatchAnswers(o, after) :
                /\ IF answer = PatchAnswer(o, after) THEN NoFault ELSE Fault
                /\ store' = StoreAfter(o, after, answer)
                /\ patched' = [patched EXCEPT ![p] = @ \cup {o}]
                /\ IF answer = "ok"
                   THEN RFNext(p, {"ok"}, 1) /\ UNCHANGED mem
                   ELSE IF Retryable(answer) /\ AttemptsLeft(i[p])
                        THEN RFRetry(p, after, answer) /\ UNCHANGED mem
                        ELSE RFError(p, answer, 1)
    /\ UNCHANGED <<tmplCfg, enableRoute53Role, eksRoleName, iamVars, guard, calls, addf>>
    /\ UNCHANGED ensVars

\* r.Get(ctx, client.ObjectKeyFromObject(object), object), lines 439-442.
rf_get(p) ==
    /\ pc[p] = "rf_get"
    /\ LET o == obj[p].name IN
       \/ /\ Exists(o)
          /\ obj' = [obj EXCEPT ![p].fins = store[o].fins]
          /\ i' = [i EXCEPT ![p] = @ + 1]
          /\ pc' = [pc EXCEPT ![p] = "rf_patch"]
          /\ rf' = [rf EXCEPT ![p] = [@ EXCEPT !.rereads = @ + 1, !.iterations = @ + 1]]
          /\ UNCHANGED <<mem, result, failed>>
          /\ NoFault
       \/ /\ ~Exists(o)
          /\ Return(p, "err", "removeFinalizer")
          /\ rf' = [rf EXCEPT ![p] = [@ EXCEPT !.ret = "err", !.rereads = @ + 1,
                       !.answers = @ \cup {"GetNotFound"}]]
          /\ NoFault
       \/ /\ Fault
          /\ Return(p, "err", "removeFinalizer")
          /\ rf' = [rf EXCEPT ![p] = [@ EXCEPT !.ret = "err", !.rereads = @ + 1,
                       !.answers = @ \cup {"GetError"}]]
    /\ UNCHANGED <<storeVars, iamVars, guard, calls, patched, addf>>
    /\ UNCHANGED ensVars

(***************************************************************************)
(* The IAM service (pkg/iam), as the controllers use it.                   *)
(***************************************************************************)
\* DeleteRole: the role and what hangs on it are gone afterwards; a role
\* that is not there is no error.
DeleteRole(roleName) == iamRoles \ {roleName}

\* ReconcileRole: the role exists afterwards.
ReconcileRole(roleName) == iamRoles \cup {roleName}

\* DeleteRolesForIRSA, ReconcileRolesForIRSA: the catalog roles of the
\* cluster.
DeleteRolesForIRSA(cluster) == irsaRoles \ {cluster}
ReconcileRolesForIRSA(cluster) == irsaRoles \cup {cluster}

(***************************************************************************)
(* AWSMachineTemplateReconciler.Reconcile (main.go:199-279).               *)
(***************************************************************************)
\* What a reconcile forgets when the next one starts.
NewReconcile(p) ==
    /\ guard' = [guard EXCEPT ![p] = "none"]
    /\ calls' = [calls EXCEPT ![p] = {}]
    /\ patched' = [patched EXCEPT ![p] = {}]
    /\ rf' = [rf EXCEPT ![p] = NoRF]
    /\ addf' = [addf EXCEPT ![p] = NoAdd]

\* The deletion path is taken for every object that carries the
\* reconciler's finalizer.
Path_byFinalizer(p) ==
    IF FinalizerName(IF p = EKS THEN IRSARole ELSE ControlPlaneRole) \in store[p].fins
    THEN (IF p = EKS THEN "eks_delete" ELSE "reconcileDelete")
    ELSE (IF p = EKS THEN "eks_normal" ELSE "reconcileNormal")

\* main.go:275-278, part_000:119 and 140: the path of a reconcile, from the
\* deletion timestamp of the object as read.
Path(p) ==
    IF Deleting(p)
    THEN (IF p = EKS THEN "eks_delete" ELSE "reconcileDelete")
    ELSE (IF p = EKS THEN "eks_normal" ELSE "reconcileNormal")

\* The role of the template, from its labels (lines 217-227).
RoleOf(t) == tmplCfg[t].roleLabel

\* A lookup of Reconcile fails (main.go:244-272, part_000:81-117): the
\* error is returned at once, `return ctrl.Result{}, err`.
LookupFailed_logged(p, c) ==
    /\ pc' = [pc EXCEPT ![p] = IF p = EKS THEN "eks_normal" ELSE "reconcileNormal"]
    /\ mem' = [mem EXCEPT ![p] = store[p].fins]
    /\ result' = [result EXCEPT ![p] = "none"]
    /\ failed' = [failed EXCEPT ![p] = {c}]
    /\ UNCHANGED <<obj, i>>

LookupFailed(p, c) == ReturnFirst(p, "err", c)

\* A template is ignored by its labels only.
Ignored_labelsOnly(t) ==
    \/ ~tmplCfg[t].watch
    \/ RoleOf(t) \notin {ControlPlaneRole, BastionRole}

\* Lines 211-238: a template without the watch-filter label, with neither
\* role label or with an empty IAMInstanceProfile is ignored.
Ignored(t) ==
    \/ ~tmplCfg[t].watch
    \/ RoleOf(t) \notin {ControlPlaneRole, BastionRole}
    \/ tmplCfg[t].profile = ""

\* The calls of Reconcile that can fail after the template is read and
\* found to be one the controller reconciles (lines 240-272).
ReconcileLookups ==
    {"GetAWSClusterRoleIdentity", "GetAWSClientSession", "iam.New"}

\* The controller is set up for AWSMachineTemplates (lines 405-410): a
\* request comes for a template that was created.  The requests of one
\* template are served one after the other, those of different templates
\* by any worker or replica at any time.
Reconcile(t) ==
    /\ pc[t] = "done"
    /\ tmplCfg[t].created
    /\ NewReconcile(t)
    /\ \/ \* the template is not found: nothing to do (line 205)
          /\ ~Exists(t)
          /\ ReturnFirst(t, "ok", "none")
          /\ NoFault
       \/ \* the template cannot be read (line 208)
          /\ Fault
          /\ ReturnFirst(t, "err", "Get")
       \/ \* no watch-filter label, no role label or no instance profile:
          \* the template is ignored (lines 211-238)
          /\ Exists(t)
          /\ Ignored(t)
          /\ ReturnFirst(t, "ok", "none")
          /\ NoFault
       \/ \* there is not exactly one AWSCluster (line 240)
          /\ Exists(t)
          /\ ~Ignored(t)
          /\ ~GetAWSClusterByName
          /\ ReturnFirst(t, "err", "GetAWSClusterByName")
          /\ NoFault
       \/ \* a lookup fails (lines 244-272)
          /\ Exists(t)
          /\ ~Ignored(t)
          /\ GetAWSClusterByName
          /\ Fault
          /\ \E c \in ReconcileLookups : LookupFailed(t, c)
       \/ \* lines 275-278: the deletion timestamp of the template as read
          /\ Exists(t)
          /\ ~Ignored(t)
          /\ GetAWSClusterByName
          /\ mem' = [mem EXCEPT ![t] = store[t].fins]
          /\ Begin(t, Path(t))
          /\ NoFault
    /\ UNCHANGED <<storeVars, iamVars>>
    /\ UNCHANGED ensVars

(***************************************************************************)
(* reconcileDelete (main.go:281-340).                                      *)
(***************************************************************************)
\* Line 287: if !roleUsed.
AfterGuard_unguarded(used) == "delete_role"

AfterGuard(used) == IF used THEN "delete_cluster" ELSE "delete_role"

\* Lines 282-287: the guard.
reconcileDelete(t) ==
    /\ pc[t] = "reconcileDelete"
    /\ \/ /\ Fault
          /\ guard' = [guard EXCEPT ![t] = "err"]
          /\ Return(t, "err", "isRoleUsedElsewhere")
       \/ /\ NoFault
          /\ guard' = [guard EXCEPT ![t] =
                IF isRoleUsedElsewhere(tmplCfg[t].profile) THEN "used" ELSE "free"]
          /\ Goto(t, AfterGuard(isRoleUsedElsewhere(tmplCfg[t].profile)))
          /\ UNCHANGED <<mem, obj, i>>
    /\ UNCHANGED <<storeVars, iamVars, calls, patched, rf, addf>>
    /\ UNCHANGED ensVars

\* Lines 292 and 368: the IRSA roles are those of a control-plane template
\* of a controller started with EnableRoute53Role.
WantsIRSA_anyRole(t) == enableRoute53Role

WantsIRSA(t) == RoleOf(t) = ControlPlaneRole /\ enableRoute53Role

\* Lines 288-291: iamService.DeleteRole().
delete_role_unchecked(t) ==
    /\ pc[t] = "delete_role"
    /\ Called(t, "DeleteRole")
    /\ \/ /\ Fault
          /\ pc' = [pc EXCEPT ![t] = "delete_cluster"]
          /\ failed' = [failed EXCEPT ![t] = @ \cup {"DeleteRole"}]
          /\ UNCHANGED <<iamRoles, mem, obj, i, result>>
       \/ /\ NoFault
          /\ iamRoles' = DeleteRole(tmplCfg[t].profile)
          /\ Goto(t, IF WantsIRSA(t)
                     THEN "delete_irsa" ELSE "delete_cluster")
          /\ UNCHANGED <<mem, obj, i>>
    /\ UNCHANGED <<storeVars, irsaRoles, guard, patched, rf, addf>>
    /\ UNCHANGED ensVars

delete_role(t) ==
    /\ pc[t] = "delete_role"
    /\ Called(t, "DeleteRole")
    /\ \/ /\ Fault
          /\ Return(t, "err", "DeleteRole")
          /\ UNCHANGED iamRoles
       \/ /\ NoFault
          /\ iamRoles' = DeleteRole(tmplCfg[t].profile)
          /\ Goto(t, IF WantsIRSA(t)
                     THEN "delete_irsa" ELSE "delete_cluster")
          /\ UNCHANGED <<mem, obj, i>>
    /\ UNCHANGED <<storeVars, irsaRoles, guard, patched, rf, addf>>
    /\ UNCHANGED ensVars

\* Lines 292-299: iamService.DeleteRolesForIRSA().
delete_irsa(t) ==
    /\ pc[t] = "delete_irsa"
    /\ Called(t, "DeleteRolesForIRSA")
    /\ \/ /\ Fault
          /\ Return(t, "err", "DeleteRolesForIRSA")
          /\ UNCHANGED irsaRoles
       \/ /\ NoFault
          /\ irsaRoles' = DeleteRolesForIRSA(ClusterOf(t))
          /\ Goto(t, "delete_cluster")
          /\ UNCHANGED <<mem, obj, i>>
    /\ UNCHANGED <<storeVars, iamRoles, guard, patched, rf, addf>>
    /\ UNCHANGED ensVars

\* Lines 301-311: the AWSCluster is read and removeFinalizer is called on it.
delete_cluster(t) ==
    /\ pc[t] = "delete_cluster"
    /\ \/ /\ ~GetAWSClusterByName
          /\ Return(t, "err", "GetAWSClusterByName")
          /\ UNCHANGED rf
          /\ NoFault
       \/ /\ Fault
          /\ Return(t, "err", "GetAWSClusterByName")
          /\ UNCHANGED rf
       \/ /\ GetAWSClusterByName
          /\ removeFinalizer(t, AWSCluster, store[AWSCluster].fins)
          /\ UNCHANGED mem
          /\ NoFault
    /\ UNCHANGED <<storeVars, iamVars, guard, calls, patched, addf>>
    /\ UNCHANGED ensVars

\* Lines 313-318: removeFinalizer on the template as read by Reconcile.
delete_template(t) ==
    /\ pc[t] = "delete_template"
    /\ removeFinalizer(t, t, mem[t])
    /\ UNCHANGED <<storeVars, iamVars, mem, guard, calls, patched, addf, faultsLeft>>
    /\ UNCHANGED ensVars

\* Lines 320-339: the cluster-values ConfigMap is read and removeFinalizer
\* is called on it; a ConfigMap that is not found ends the reconcile
\* without an error (client.IgnoreNotFound).
delete_configmap(t) ==
    /\ pc[t] = "delete_configmap"
    /\ \/ /\ ~Exists(ConfigMap)
          /\ Return(t, "ok", "none")
          /\ UNCHANGED rf
          /\ NoFault
       \/ /\ Fault
          /\ Return(t, "err", "GetConfigMap")
          /\ UNCHANGED rf
       \/ /\ Exists(ConfigMap)
          /\ removeFinalizer(t, ConfigMap, store[ConfigMap].fins)
          /\ UNCHANGED mem
          /\ NoFault
    /\ UNCHANGED <<storeVars, iamVars, guard, calls, patched, addf>>
    /\ UNCHANGED ensVars

\* Line 339.
delete_done(t) ==
    /\ pc[t] = "delete_done"
    /\ Return(t, "ok", "none")
    /\ UNCHANGED <<storeVars, iamVars, guard, calls, patched, rf, addf, faultsLeft>>
    /\ UNCHANGED ensVars

(***************************************************************************)
(* reconcileNormal (main.go:342-403).                                      *)
(***************************************************************************)
\* The finalizer-add patch of both reconcilers (main.go:344-356,
\* part_000:142-154): NewHelper, AddFinalizer, Patch, once; every failure
\* is returned.  `next` is where the reconcile goes on.
addFinalizer_retrying(p, fin, next) ==
    LET after == mem[p] \cup {fin} IN
    \/ \* the finalizer is on the object as read: no patch
       /\ fin \in mem[p]
       /\ Goto(p, next)
       /\ UNCHANGED <<store, mem, obj, i, addf>>
       /\ NoFault
    \/ \* the patch is applied
       /\ fin \notin mem[p]
       /\ PatchAnswer(p, after) = "ok"
       /\ store' = PatchApply(p, after)
       /\ mem' = [mem EXCEPT ![p] = after]
       /\ addf' = [addf EXCEPT ![p] = [@ EXCEPT !.requests = @ + 1, !.answers = @ \cup {"ok"}]]
       /\ Goto(p, next)
       /\ UNCHANGED <<obj, i>>
       /\ NoFault
    \/ \* the store refuses the patch
       /\ fin \notin mem[p]
       /\ PatchAnswer(p, after) # "ok"
       /\ addf' = [addf EXCEPT ![p] = [@ EXCEPT !.requests = @ + 1,
                      !.answers = @ \cup {PatchAnswer(p, after)}]]
       /\ Return(p, "err", "addFinalizer")
       /\ UNCHANGED store
       /\ NoFault
    \/ \* the patch fails for another reason
       /\ fin \notin mem[p]
       /\ Fault
       /\ \E c \in PatchFaults :
             addf' = [addf EXCEPT ![p] = [@ EXCEPT !.requests = @ + 1,
                            !.rereads = @ + 1, !.answers = @ \cup {c}]]
       /\ UNCHANGED <<store, pc, mem, obj, i, result, failed>>

\* The reconcile goes on after a failed finalizer-add patch, the error
\* only logged.
AddFailed_logged(p, next) ==
    /\ Goto(p, next)
    /\ UNCHANGED <<mem, obj, i>>

\* Lines 351-354, part_000:149-152: the error of the finalizer-add patch
\* is returned.
AddFailed(p, next) == Return(p, "err", "addFinalizer")

addFinalizer(p, fin, next) ==
    LET after == mem[p] \cup {fin} IN
    \/ \* the finalizer is on the object as read: no patch
       /\ fin \in mem[p]
       /\ Goto(p, next)
       /\ UNCHANGED <<store, mem, obj, i, addf>>
       /\ NoFault
    \/ \* the patch is applied
       /\ fin \notin mem[p]
       /\ PatchAnswer(p, after) = "ok"
       /\ store' = PatchApply(p, after)
       /\ mem' = [mem EXCEPT ![p] = after]
       /\ addf' = [addf EXCEPT ![p] = [@ EXCEPT !.requests = @ + 1, !.answers = @ \cup {"ok"}]]
       /\ Goto(p, next)
       /\ UNCHANGED <<obj, i>>
       /\ NoFault
    \/ \* the store refuses the patch
       /\ fin \notin mem[p]
       /\ PatchAnswer(p, after) # "ok"
       /\ addf' = [addf EXCEPT ![p] = [@ EXCEPT !.requests = @ + 1,
                      !.answers = @ \cup {PatchAnswer(p, after)}]]
       /\ AddFailed(p, next)
       /\ UNCHANGED store
       /\ NoFault
    \/ \* the patch fails for another reason
       /\ fin \notin mem[p]
       /\ Fault
       /\ \E c \in PatchFaults :
             addf' = [addf EXCEPT ![p] = [@ EXCEPT !.requests = @ + 1, !.answers = @ \cup {c}]]
       /\ AddFailed(p, next)
       /\ UNCHANGED store

\* Lines 344-356.
reconcileNormal(t) ==
    /\ pc[t] = "reconcileNormal"
    /\ addFinalizer(t, FinalizerName(ControlPlaneRole), "normal_role")
    /\ UNCHANGED <<tmplCfg, enableRoute53Role, eksRoleName, iamVars, guard, calls, patched, rf>>
    /\ UNCHANGED ensVars

\* Lines 358-367: the AWSCluster is read, then iamService.ReconcileRole().
normal_role(t) ==
    /\ pc[t] = "normal_role"
    /\ \/ /\ ~GetAWSClusterByName
          /\ Return(t, "err", "GetAWSClusterByName")
          /\ UNCHANGED <<iamRoles, calls>>
          /\ NoFault
       \/ /\ Fault
          /\ Return(t, "err", "GetAWSClusterByName")
          /\ UNCHANGED <<iamRoles, calls>>
       \/ /\ GetAWSClusterByName
          /\ Called(t, "ReconcileRole")
          /\ Fault
          /\ Return(t, "err", "ReconcileRole")
          /\ UNCHANGED iamRoles
       \/ /\ GetAWSClusterByName
          /\ Called(t, "ReconcileRole")
          /\ NoFault
          /\ iamRoles' = ReconcileRole(tmplCfg[t].profile)
          /\ IF WantsIRSA(t)
             THEN Goto(t, "normal_irsa") /\ UNCHANGED <<mem, obj, i>>
             ELSE Return(t, "ok", "none")
    /\ UNCHANGED <<storeVars, irsaRoles, guard, patched, rf, addf>>
    /\ UNCHANGED ensVars

\* What the issuer domain of a template's cluster is computed from
\* (lines 372-391).
IRSALookups == {"GetAWSClusterRoleIdentity", "GetAWSAccountID", "GetBaseDomain"}

\* Lines 368-402: the lookups, then iamService.ReconcileRolesForIRSA().
normal_irsa_unchecked(t) ==
    /\ pc[t] = "normal_irsa"
    /\ \/ /\ Fault
          /\ \E c \in IRSALookups : Return(t, "ok", c)
          /\ Called(t, "ReconcileRolesForIRSA")
          /\ irsaRoles' = ReconcileRolesForIRSA(ClusterOf(t))
       \/ /\ Called(t, "ReconcileRolesForIRSA")
          /\ Fault
          /\ Return(t, "err", "ReconcileRolesForIRSA")
          /\ UNCHANGED irsaRoles
       \/ /\ Called(t, "ReconcileRolesForIRSA")
          /\ NoFault
          /\ irsaRoles' = ReconcileRolesForIRSA(ClusterOf(t))
          /\ Return(t, "ok", "none")
    /\ UNCHANGED <<storeVars, iamRoles, guard, patched, rf, addf>>
    /\ UNCHANGED ensVars

normal_irsa(t) ==
    /\ pc[t] = "normal_irsa"
    /\ \/ /\ Fault
          /\ \E c \in IRSALookups : Return(t, "err", c)
          /\ UNCHANGED <<irsaRoles, calls>>
       \/ /\ Called(t, "ReconcileRolesForIRSA")
          /\ Fault
          /\ Return(t, "err", "ReconcileRolesForIRSA")
          /\ UNCHANGED irsaRoles
       \/ /\ Called(t, "ReconcileRolesForIRSA")
          /\ NoFault
          /\ irsaRoles' = ReconcileRolesForIRSA(ClusterOf(t))
          /\ Return(t, "ok", "none")
    /\ UNCHANGED <<storeVars, iamRoles, guard, patched, rf, addf>>
    /\ UNCHANGED ensVars

(***************************************************************************)
(* AWSManagedControlPlaneReconciler.Reconcile (part_000:49-185).           *)
(***************************************************************************)
\* The calls that can fail after the object is read and found to be one
\* the controller reconciles (lines 81-117).
EKSLookups ==
    {"GetAWSClusterRoleIdentity", "GetAWSClientSession", "GetCallerIdentity", "iam.New"}

\* Lines 53-119.
ReconcileEKS ==
    /\ pc[EKS] = "done"
    /\ tmplCfg[EKS].created
    /\ NewReconcile(EKS)
    /\ \/ \* not found (line 55)
          /\ ~Exists(EKS)
          /\ ReturnFirst(EKS, "ok", "none")
          /\ NoFault
       \/ \* the object cannot be read (line 58)
          /\ Fault
          /\ ReturnFirst(EKS, "err", "Get")
       \/ \* no watch-filter label (line 67)
          /\ Exists(EKS)
          /\ ~tmplCfg[EKS].watch
          /\ ReturnFirst(EKS, "ok", "none")
          /\ NoFault
       \/ \* no role name yet (line 73)
          /\ Exists(EKS)
          /\ tmplCfg[EKS].watch
          /\ ~eksRoleName
          /\ ReturnFirst(EKS, "requeueAfter", "none")
          /\ NoFault
       \/ \* a lookup fails
          /\ Exists(EKS)
          /\ tmplCfg[EKS].watch
          /\ eksRoleName
          /\ Fault
          /\ \E c \in EKSLookups : LookupFailed(EKS, c)
       \/ \* line 119: the deletion timestamp of the object as read
          /\ Exists(EKS)
          /\ tmplCfg[EKS].watch
          /\ eksRoleName
          /\ mem' = [mem EXCEPT ![EKS] = store[EKS].fins]
          /\ Begin(EKS, Path(EKS))
          /\ NoFault
    /\ UNCHANGED <<storeVars, iamVars>>
    /\ UNCHANGED ensVars

\* The reconcile that has done its work returns without a requeue.
EKSDone_quiet == "ok"

\* part_000:182-184: ctrl.Result{Requeue: true}, nil, the return of both
\* branches.
EKSDone == "requeue"

\* Lines 120-123: iamService.DeleteRolesForIRSA().
eks_delete ==
    /\ pc[EKS] = "eks_delete"
    /\ Called(EKS, "DeleteRolesForIRSA")
    /\ \/ /\ Fault
          /\ Return(EKS, "err", "DeleteRolesForIRSA")
          /\ UNCHANGED irsaRoles
       \/ /\ NoFault
          /\ irsaRoles' = DeleteRolesForIRSA(ClusterOf(EKS))
          /\ Goto(EKS, "eks_removeFinalizer")
          /\ UNCHANGED <<mem, obj, i>>
    /\ UNCHANGED <<storeVars, iamRoles, guard, patched, rf, addf>>
    /\ UNCHANGED ensVars

\* Lines 124-139 and 182-184: one patch that removes the finalizer.
eks_removeFinalizer ==
    /\ pc[EKS] = "eks_removeFinalizer"
    /\ LET after == mem[EKS] \ {FinalizerName(IRSARole)} IN
       \/ /\ FinalizerName(IRSARole) \notin mem[EKS]
          /\ Return(EKS, EKSDone, "none")
          /\ UNCHANGED <<store, patched>>
          /\ NoFault
       \/ /\ FinalizerName(IRSARole) \in mem[EKS]
          /\ PatchAnswer(EKS, after) = "ok"
          /\ store' = PatchApply(EKS, after)
          /\ patched' = [patched EXCEPT ![EKS] = @ \cup {EKS}]
          /\ Return(EKS, EKSDone, "none")
          /\ NoFault
       \/ /\ FinalizerName(IRSARole) \in mem[EKS]
          /\ \/ PatchAnswer(EKS, after) # "ok" /\ NoFault
             \/ Fault
          /\ patched' = [patched EXCEPT ![EKS] = @ \cup {EKS}]
          /\ Return(EKS, "err", "removeFinalizer")
          /\ UNCHANGED store
    /\ UNCHANGED <<tmplCfg, enableRoute53Role, eksRoleName, iamVars, guard, calls, rf, addf>>
    /\ UNCHANGED ensVars

\* Lines 141-154.
eks_normal ==
    /\ pc[EKS] = "eks_normal"
    /\ addFinalizer(EKS, FinalizerName(IRSARole), "eks_irsa")
    /\ UNCHANGED <<tmplCfg, enableRoute53Role, eksRoleName, iamVars, guard, calls, patched, rf>>
    /\ UNCHANGED ensVars

\* What the issuer domain of an EKS cluster is computed from (lines 156-175).
EKSIRSALookups == {"getAWSAccountID", "GetIRSAOpenIDURlForEKS", "GetRoleARN"}

\* Lines 156-184: the lookups, then iamService.ReconcileRolesForIRSA().
eks_irsa ==
    /\ pc[EKS] = "eks_irsa"
    /\ \/ /\ Fault
          /\ \E c \in EKSIRSALookups : Return(EKS, "err", c)
          /\ UNCHANGED <<irsaRoles, calls>>
       \/ /\ Called(EKS, "ReconcileRolesForIRSA")
          /\ Fault
          /\ Return(EKS, "err", "ReconcileRolesForIRSA")
          /\ UNCHANGED irsaRoles
       \/ /\ Called(EKS, "ReconcileRolesForIRSA")
          /\ NoFault
          /\ irsaRoles' = ReconcileRolesForIRSA(ClusterOf(EKS))
          /\ Return(EKS, EKSDone, "none")
    /\ UNCHANGED <<storeVars, iamRoles, guard, patched, rf, addf>>
    /\ UNCHANGED ensVars

(***************************************************************************)
(* The environment.                                                        *)
(***************************************************************************)
\* A user, or the deletion of the cluster, deletes an object: the store
\* sets its deletion timestamp.
EnvDelete(o) ==
    /\ store[o].phase = "live"
    /\ store' = [store EXCEPT ![o] = Settle([@ EXCEPT !.phase = "deleting"])]
    /\ UNCHANGED <<tmplCfg, enableRoute53Role, eksRoleName, iamVars, localVars, histVars, faultsLeft>>
    /\ UNCHANGED ensVars

\* The controller that owns the other finalizer releases it.
EnvReleaseOther(o) ==
    /\ Deleting(o)
    /\ OtherFinalizer \in store[o].fins
    /\ store' = [store EXCEPT ![o] = Settle([@ EXCEPT !.fins = @ \ {OtherFinalizer}])]
    /\ UNCHANGED <<tmplCfg, enableRoute53Role, eksRoleName, iamVars, localVars, histVars, faultsLeft>>
    /\ UNCHANGED ensVars

\* cluster-api-provider-aws creates the EKS role and writes its name.
EnvSetRoleName ==
    /\ Exists(EKS)
    /\ ~eksRoleName
    /\ eksRoleName' = TRUE
    /\ UNCHANGED <<store, tmplCfg, enableRoute53Role, iamVars, localVars, histVars, faultsLeft>>
    /\ UNCHANGED ensVars

(***************************************************************************)
(* The specification of the controllers.                                   *)
(***************************************************************************)
Live(fins) == [phase |-> "live", fins |-> fins]
Gone == [phase |-> "gone", fins |-> {}]

Cfg(w, r, pr) == [created |-> TRUE, watch |-> w, roleLabel |-> r, profile |-> pr]
NoCfg == [created |-> FALSE, watch |-> FALSE, roleLabel |-> "none", profile |-> ""]

\* The templates the model reconciles, with EnableRoute53Role: two
\* control-plane templates with one instance profile (a template and its
\* successor after a change), with and without the IRSA roles; a bastion
\* and a control-plane template with one instance profile; two templates
\* with different profiles; and the three kinds of template the controller
\* ignores.
Scenarios ==
    { <<Cfg(TRUE, ControlPlaneRole, "role1"), Cfg(TRUE, ControlPlaneRole, "role1"), TRUE>>,
      <<Cfg(TRUE, ControlPlaneRole, "role1"), Cfg(TRUE, ControlPlaneRole, "role1"), FALSE>>,
      <<Cfg(TRUE, BastionRole, "role1"), Cfg(TRUE, ControlPlaneRole, "role1"), TRUE>>,
      <<Cfg(TRUE, ControlPlaneRole, "role1"), Cfg(TRUE, ControlPlaneRole, "role2"), TRUE>>,
      <<Cfg(FALSE, ControlPlaneRole, "role1"), Cfg(TRUE, ControlPlaneRole, "role1"), TRUE>>,
      <<Cfg(TRUE, "none", "role1"), Cfg(TRUE, ControlPlaneRole, "role1"), TRUE>>,
      <<Cfg(TRUE, ControlPlaneRole, ""), Cfg(TRUE, ControlPlaneRole, "role1"), TRUE>> }

\* The role's reconciliation is followed call by call in SpecIAM only.
Workers == {"w1", "w2"}

NoRole == [exists |-> FALSE, trust |-> {}, tags |-> {}, policies |-> {}]
NoProfile == [exists |-> FALSE, attached |-> FALSE, tags |-> {}]

NoEnsure ==
    /\ role = NoRole
    /\ profile = NoProfile
    /\ customTags = {}
    /\ oldIrsaDomain = ""
    /\ epc = [w \in Workers |-> "idle"]
    /\ seenTrust = [w \in Workers |-> {}]
    /\ ecalls = [w \in Workers |-> {}]
    /\ eanswers = [w \in Workers |-> {}]
    /\ eret = [w \in Workers |-> "none"]
    /\ runs = [w \in Workers |-> 0]

InitLocal ==
    /\ pc = [p \in Procs |-> "done"]
    /\ mem = [p \in Procs |-> {}]
    /\ obj = [p \in Procs |-> NoObj]
    /\ i = [p \in Procs |-> 0]
    /\ guard = [p \in Procs |-> "none"]
    /\ calls = [p \in Procs |-> {}]
    /\ patched = [p \in Procs |-> {}]
    /\ result = [p \in Procs |-> "none"]
    /\ failed = [p \in Procs |-> {}]
    /\ rf = [p \in Procs |-> NoRF]
    /\ addf = [p \in Procs |-> NoAdd]

\* The store of a cluster with the two templates: nothing is reconciled
\* yet; the AWSCluster and the ConfigMap carry the controller's finalizer,
\* the AWSCluster the one of its own controller too.
TemplateStore ==
    [o \in Objects |->
        CASE o \in Tmpls -> Live({})
          [] o = AWSCluster -> Live({FinalizerName(ControlPlaneRole), OtherFinalizer})
          [] o = ConfigMap -> Live({FinalizerName(ControlPlaneRole)})
          [] OTHER -> Gone]

InitTemplates ==
    /\ \E sc \in Scenarios :
          /\ tmplCfg = [p \in Procs |->
                IF p = "tmplA" THEN sc[1] ELSE IF p = "tmplB" THEN sc[2] ELSE NoCfg]
          /\ enableRoute53Role = sc[3]
    /\ store = TemplateStore
    /\ eksRoleName = FALSE

\* The store of a cluster with an AWSManagedControlPlane, with or without
\* the watch-filter label, its role not yet created.
InitEKS ==
    /\ \E w \in BOOLEAN :
          tmplCfg = [p \in Procs |-> IF p = EKS THEN Cfg(w, "none", "") ELSE NoCfg]
    /\ store = [o \in Objects |-> IF o = EKS THEN Live({OtherFinalizer}) ELSE Gone]
    /\ enableRoute53Role = TRUE
    /\ eksRoleName = FALSE

Init ==
    /\ InitTemplates \/ InitEKS
    /\ iamRoles = {}
    /\ irsaRoles = {}
    /\ InitLocal
    /\ faultsLeft = MaxFaults
    /\ NoEnsure

Next ==
    \/ \E t \in Tmpls :
          \/ Reconcile(t)
          \/ reconcileDelete(t)
          \/ delete_role(t)
          \/ delete_irsa(t)
          \/ delete_cluster(t)
          \/ delete_template(t)
          \/ delete_configmap(t)
          \/ delete_done(t)
          \/ reconcileNormal(t)
          \/ normal_role(t)
          \/ normal_irsa(t)
          \/ rf_patch(t)
          \/ rf_get(t)
    \/ ReconcileEKS
    \/ eks_delete
    \/ eks_removeFinalizer
    \/ eks_normal
    \/ eks_irsa
    \/ \E o \in Objects : EnvDelete(o)
    \/ \E o \in Objects : EnvReleaseOther(o)
    \/ EnvSetRoleName

Spec == Init /\ [][Next]_vars

(***************************************************************************)
(* The deletion reconcile from its first removeFinalizer call on, with a   *)
(* store that can answer every attempt of the loop with a failure.         *)
(***************************************************************************)
\* tmplA and tmplB are reconciled, tmplA is being deleted, its deletion
\* reconcile has got "used" from the guard and stands before line 301.
\* The AWSCluster is being deleted as well, or not.
InitRF ==
    /\ tmplCfg = [p \in Procs |->
          IF p \in Tmpls THEN Cfg(TRUE, ControlPlaneRole, "role1") ELSE NoCfg]
    /\ enableRoute53Role = TRUE
    /\ eksRoleName = FALSE
    /\ \E ph \in {"live", "deleting"} :
          store = [TemplateStore EXCEPT
                      !["tmplA"] = [phase |-> "deleting", fins |-> {FinalizerName(ControlPlaneRole)}],
                      !["tmplB"] = Live({FinalizerName(ControlPlaneRole)}),
                      ![AWSCluster].phase = ph]
    /\ iamRoles = {"role1"}
    /\ irsaRoles = {ClusterOf("tmplA")}
    /\ pc = [p \in Procs |-> IF p = "tmplA" THEN "delete_cluster" ELSE "done"]
    /\ mem = [p \in Procs |-> IF p = "tmplA" THEN {FinalizerName(ControlPlaneRole)} ELSE {}]
    /\ obj = [p \in Procs |-> NoObj]
    /\ i = [p \in Procs |-> 0]
    /\ guard = [p \in Procs |-> IF p = "tmplA" THEN "used" ELSE "none"]
    /\ calls = [p \in Procs |->
          IF p = "tmplB" THEN {"ReconcileRole", "ReconcileRolesForIRSA"} ELSE {}]
    /\ patched = [p \in Procs |-> {}]
    /\ result = [p \in Procs |-> IF p = "tmplB" THEN "ok" ELSE "none"]
    /\ failed = [p \in Procs |-> {}]
    /\ rf = [p \in Procs |-> NoRF]
    /\ addf = [p \in Procs |->
          IF p = "tmplB" THEN [NoAdd EXCEPT !.requests = 1, !.answers = {"ok"}] ELSE NoAdd]
    /\ faultsLeft = MaxPatchFaults
    /\ NoEnsure

NextRF ==
    \/ delete_cluster("tmplA")
    \/ delete_template("tmplA")
    \/ delete_configmap("tmplA")
    \/ delete_done("tmplA")
    \/ rf_patch("tmplA")
    \/ rf_get("tmplA")
    \/ \E o \in {AWSCluster, ConfigMap} : EnvDelete(o)
    \/ EnvReleaseOther(AWSCluster)

SpecRF == InitRF /\ [][NextRF]_vars

(***************************************************************************)
(* Properties of the deletion reconcile and the guard.                     *)
(***************************************************************************)
\* The templates the controller reconciles (main.go:211-238).
Tracked(t) ==
    /\ tmplCfg[t].created
    /\ tmplCfg[t].watch
    /\ RoleOf(t) \in {ControlPlaneRole, BastionRole}
    /\ tmplCfg[t].profile # ""

RoleDeletions == {"DeleteRole", "DeleteRolesForIRSA"}

C2_BothDeletedRoleRemoved ==
    \A a \in Tmpls, b \in Tmpls :
        (/\ a # b
         /\ Tracked(a)
         /\ Tracked(b)
         /\ tmplCfg[a].profile = tmplCfg[b].profile
         /\ ~Exists(a)
         /\ ~Exists(b))
        => tmplCfg[a].profile \notin iamRoles

C4_EveryDeletionGuarded ==
    \A p \in Procs :
        calls[p] \cap RoleDeletions # {} => guard[p] = "free"

\* C4: in the AWSMachineTemplate reconciler, DeleteRole or
\* DeleteRolesForIRSA is called only in a reconcile whose guard query said
\* that the role is not used elsewhere; the AWSManagedControlPlane
\* reconciler makes no guard query, and calls DeleteRolesForIRSA without.
C4_TemplateDeletionGuarded ==
    /\ \A t \in Tmpls :
          calls[t] \cap RoleDeletions # {} => guard[t] = "free"
    /\ guard[EKS] = "none"

C4_Witness ==
    \E t \in Tmpls :
        /\ guard[t] = "free"
        /\ calls[t] = RoleDeletions
        /\ pc[t] = "delete_cluster"

\* C9, as stated: a deletion reconcile whose guard said "used" sends a
\* finalizer patch for the reconciled template only, and makes no IAM call.
C9_UsedReleasesOnlyRequester ==
    \A t \in Tmpls :
        guard[t] = "used" =>
            /\ calls[t] = {}
            /\ patched[t] \subseteq {t}

(***************************************************************************)
(* Properties of removeFinalizer and of the finalizer-add patch.           *)
(***************************************************************************)
\* removeFinalizer returned an error after maxPatchRetries requests that
\* were all answered Invalid.
Exhausted(p) ==
    /\ rf[p].ret = "err"
    /\ rf[p].answers = {"Invalid"}
    /\ rf[p].requests = maxPatchRetries

\* C5, as stated: removeFinalizer whose every patch request was answered
\* with a version conflict has made maxPatchRetries requests, with a
\* re-read between them, when it returns its error.
C5_ConflictRetriedToCeiling ==
    \A p \in Procs :
        (rf[p].ret = "err" /\ rf[p].answers = {"Conflict"}) =>
            /\ rf[p].requests = maxPatchRetries
            /\ rf[p].rereads = maxPatchRetries - 1

\* C5: removeFinalizer makes at most maxPatchRetries (5) patch requests and
\* one re-read fewer; when every request is answered Invalid (422) it makes
\* exactly 5 requests and 4 re-reads and returns an error; a request that
\* is answered with a version conflict (409) is its last.
C5_BoundedRetries ==
    /\ maxPatchRetries = 5
    /\ \A p \in Procs :
          /\ i[p] <= maxPatchRetries
          /\ rf[p].requests <= maxPatchRetries
          /\ rf[p].rereads <= maxPatchRetries - 1
          /\ rf[p].rereads <= rf[p].requests
          /\ (rf[p].ret = "err" /\ rf[p].answers = {"Invalid"}) =>
                /\ rf[p].requests = maxPatchRetries
                /\ rf[p].rereads = maxPatchRetries - 1
          /\ (rf[p].answers = {"Invalid"} /\ rf[p].requests = maxPatchRetries) =>
                rf[p].ret = "err"
          /\ "Conflict" \in rf[p].answers =>
                /\ rf[p].ret = "err"
                /\ rf[p].rereads = rf[p].requests - 1

C5_Witness ==
    \E p \in Procs :
        /\ rf[p].ret = "err"
        /\ rf[p].answers = {"Invalid"}
        /\ rf[p].requests = 5
        /\ rf[p].rereads = 4
        /\ pc[p] = "done"

\* C6: in removeFinalizer a patch request answered with anything but ok or
\* Invalid is the last request, no re-read follows it, and removeFinalizer
\* and the reconcile return an error with that answer; a re-read that fails
\* is the last call of removeFinalizer, which returns an error too.
C6_OtherFailuresReturned ==
    \A p \in Procs :
        /\ rf[p].answers \cap {"Conflict", "ServerError", "NotFound"} # {} =>
              /\ rf[p].ret = "err"
              /\ rf[p].rereads = rf[p].requests - 1
              /\ pc[p] = "done"
              /\ result[p] = "err"
              /\ "removeFinalizer" \in failed[p]
        /\ rf[p].answers \cap {"GetError", "GetNotFound"} # {} =>
              /\ rf[p].ret = "err"
              /\ rf[p].rereads = rf[p].requests
              /\ pc[p] = "done"
              /\ result[p] = "err"
              /\ "removeFinalizer" \in failed[p]

C6_Witness ==
    \E p \in Procs :
        /\ rf[p].answers = {"Invalid", "Conflict"}
        /\ rf[p].requests = 3
        /\ rf[p].rereads = 2
        /\ rf[p].ret = "err"

C8_AddRetriedToCeiling ==
    \A p \in Procs :
        (pc[p] = "done" /\ "addFinalizer" \in failed[p] /\ addf[p].answers = {"Conflict"}) =>
            /\ addf[p].requests = maxPatchRetries
            /\ addf[p].rereads = maxPatchRetries - 1

\* C8: the finalizer is added with one patch request per reconcile, without
\* a re-read and without a retry: whatever the failure of that request, a
\* version conflict included, the reconcile returns it as its error.
C8_AddPatchedOnce ==
    \A p \in Procs :
        /\ addf[p].requests <= 1
        /\ addf[p].rereads = 0
        /\ (addf[p].answers # {} /\ "ok" \notin addf[p].answers) =>
              /\ addf[p].requests = 1
              /\ pc[p] = "done"
              /\ result[p] = "err"
              /\ failed[p] = {"addFinalizer"}

C8_Witness ==
    \E p \in Procs :
        /\ addf[p].answers = {"Conflict"}
        /\ addf[p].requests = 1
        /\ result[p] = "err"

(***************************************************************************)
(* Properties of the IRSA roles.                                           *)
(***************************************************************************)
\* C10: a reconcile in which a lookup the issuer domain is computed from
\* failed has not called ReconcileRolesForIRSA and has returned an error;
\* as long as the AWSManagedControlPlane has no role name, its reconciles
\* make no IAM call, its IRSA roles do not exist, and a reconcile that
\* finds the object with its watch-filter label, and no call failing,
\* returns a requeue.
C10_NoIRSAWithoutIssuer ==
    /\ \A p \in Procs :
          failed[p] \cap (IRSALookups \cup EKSIRSALookups) # {} =>
              /\ "ReconcileRolesForIRSA" \notin calls[p]
              /\ pc[p] = "done"
              /\ result[p] = "err"
    /\ result[EKS] = "requeueAfter" => calls[EKS] = {}
    /\ (tmplCfg[EKS].created /\ ~eksRoleName) =>
          /\ calls[EKS] = {}
          /\ ClusterOf(EKS) \notin irsaRoles
          /\ (Exists(EKS) /\ tmplCfg[EKS].watch /\ result[EKS] # "none" /\ failed[EKS] = {})
                => result[EKS] = "requeueAfter"

C10_Witness ==
    \E t \in Tmpls :
        /\ failed[t] = {"GetBaseDomain"}
        /\ calls[t] = {"ReconcileRole"}
        /\ tmplCfg[t].profile \in iamRoles
        /\ ClusterOf(t) \notin irsaRoles
        /\ result[t] = "err"


(***************************************************************************)
(* C11.  No session, no work.                                              *)
(***************************************************************************)
\* C11: a reconcile in which GetAWSClientSession failed has returned an
\* error and did nothing else: it made no IAM service call, sent no patch
\* that adds or removes a finalizer, and nothing else failed in it.
C11_NoSessionNoWork ==
    \A p \in Procs :
        "GetAWSClientSession" \in failed[p] =>
            /\ pc[p] = "done"
            /\ result[p] = "err"
            /\ failed[p] = {"GetAWSClientSession"}
            /\ calls[p] = {}
            /\ patched[p] = {}
            /\ addf[p].requests = 0
            /\ rf[p].requests = 0

\* The session resolver failed in the last reconcile of a template that
\* carries the finalizer and has a deletion timestamp.
C11_Witness ==
    \E t \in Tmpls :
        /\ failed[t] = {"GetAWSClientSession"}
        /\ result[t] = "err"
        /\ Deleting(t)
        /\ FinalizerName(ControlPlaneRole) \in store[t].fins

(***************************************************************************)
(* C12.  The IRSA roles of control-plane objects.                          *)
(***************************************************************************)
IRSACalls == {"ReconcileRolesForIRSA", "DeleteRolesForIRSA"}

\* C12, as stated: whichever reconcile calls ReconcileRolesForIRSA, it is
\* that of a control-plane template and ReconcileRole has returned nil in
\* it before.
C12_IRSAOnlyAfterRole ==
    \A p \in Procs :
        "ReconcileRolesForIRSA" \in calls[p] =>
            /\ p \in Tmpls
            /\ RoleOf(p) = ControlPlaneRole
            /\ "ReconcileRole" \in calls[p]
            /\ "ReconcileRole" \notin failed[p]

\* C12, as the code has it: the reconcile of an AWSMachineTemplate calls
\* ReconcileRolesForIRSA only after ReconcileRole returned nil in it, and
\* it calls ReconcileRolesForIRSA or DeleteRolesForIRSA only for a
\* control-plane template with EnableRoute53Role; for a bastion template
\* neither is ever called.  The reconcile of an AWSManagedControlPlane
\* calls ReconcileRolesForIRSA without ReconcileRole, and only when the
\* role name of the control plane is set.
C12_TemplateIRSAOnlyAfterRole ==
    /\ \A t \in Tmpls :
          /\ "ReconcileRolesForIRSA" \in calls[t] =>
                /\ "ReconcileRole" \in calls[t]
                /\ "ReconcileRole" \notin failed[t]
          /\ calls[t] \cap IRSACalls # {} =>
                /\ RoleOf(t) = ControlPlaneRole
                /\ enableRoute53Role
          /\ RoleOf(t) = BastionRole => calls[t] \cap IRSACalls = {}
    /\ "ReconcileRolesForIRSA" \in calls[EKS] =>
          /\ "ReconcileRole" \notin calls[EKS]
          /\ eksRoleName

\* With EnableRoute53Role, a bastion template was reconciled without an
\* IRSA call and a control-plane template with one.
C12_Witness ==
    /\ enableRoute53Role
    /\ \E t \in Tmpls :
          /\ RoleOf(t) = BastionRole
          /\ result[t] = "ok"
          /\ calls[t] = {"ReconcileRole"}
    /\ \E t \in Tmpls :
          /\ RoleOf(t) = ControlPlaneRole
          /\ result[t] = "ok"
          /\ calls[t] = {"ReconcileRole", "ReconcileRolesForIRSA"}

(***************************************************************************)
(* The reconciliation of one IRSA catalog role, call by call (pkg/iam, as  *)
(* the SecretReconciler test expects the calls, part_001:141-201).         *)
(***************************************************************************)
\* Runs of the role's reconciliation one worker starts.
MaxRuns == 2

\* The tags (part_001:117-126).  A tag is <<key, value>>; a key is written
\* as <<text, cluster name>>, the cluster name empty where the key has none.
OwnedKey == <<"capi-iam-controller/owned", "">>
TeamKey == <<"team", "">>
ClusterKey(cluster) == <<"sigs.k8s.io/cluster-api-provider-aws/cluster/", cluster>>
ReservedTags(cluster) == {<<OwnedKey, "">>, <<ClusterKey(cluster), "owned">>}
Keys(tags) == {kv[1] : kv \in tags}

\* Tag Policy: the two markers and the custom tags, the markers winning.
TagSet_customWins(cluster, custom) ==
    custom \cup {kv \in ReservedTags(cluster) : kv[1] \notin Keys(custom)}

TagSet(cluster, custom) ==
    ReservedTags(cluster) \cup {kv \in custom : kv[1] \notin Keys(ReservedTags(cluster))}

\* AWSCluster.Spec.AdditionalTags (main.go:266): none, one tag, a tag on
\* the key of a marker, and both.
CustomTagSets ==
    { {},
      {<<TeamKey, "a">>},
      {<<OwnedKey, "no">>},
      {<<ClusterKey("c1"), "shared">>, <<TeamKey, "a">>} }

\* The issuer domains (main.go:391-393).
irsaDomain == "irsa.c1.new.example.com"
OldIrsaDomains == {"", "irsa.c1.old.example.com"}
Rotation == oldIrsaDomain # "" /\ oldIrsaDomain # irsaDomain

\* The trust policy document is followed by the issuers it trusts.  The
\* document of the first update keeps the statement of the old issuer,
\* where the role has it, and has the one of the current issuer.
MakeTrust_removeOldFirst(trust) == trust \ {oldIrsaDomain}

MakeTrust(trust) ==
    (IF Rotation THEN trust \cap {oldIrsaDomain} ELSE {}) \cup {irsaDomain}

\* The inline policy of the role (part_001:190-194).
IRSAPolicy == <<"irsa-role-c1-policy", "desired">>
StalePolicy == <<"irsa-role-c1-policy", "stale">>

\* EnsureInlinePolicy: the named policy is missing or its document differs.
NeedsPut_never(policies) == FALSE

NeedsPut(policies) == IRSAPolicy \notin policies

\* Idempotent create: "already exists" is no error.
Converges_strict(answer) == answer = "ok"

Converges(answer) == answer \in {"ok", "EntityAlreadyExists"}

ctrlVars == <<storeVars, iamVars, localVars, histVars>>

EGoto(w, next) ==
    /\ epc' = [epc EXCEPT ![w] = next]
    /\ UNCHANGED eret

EReturn(w, res) ==
    /\ epc' = [epc EXCEPT ![w] = "idle"]
    /\ eret' = [eret EXCEPT ![w] = res]

Issued(w, call) == ecalls' = [ecalls EXCEPT ![w] = @ \cup {call}]
Answered(w, answer) == eanswers' = [eanswers EXCEPT ![w] = @ \cup {answer}]

\* A call fails for a reason of its own (throttling, timeout): the error is
\* returned.
ReadFails(w) ==
    /\ Fault
    /\ Answered(w, "RemoteTransient")
    /\ EReturn(w, "err")
    /\ UNCHANGED <<role, profile, seenTrust, ecalls>>

WriteFails(w, call) ==
    /\ Fault
    /\ Issued(w, call)
    /\ Answered(w, "RemoteTransient")
    /\ EReturn(w, "err")
    /\ UNCHANGED <<role, profile, seenTrust>>

\* A reconcile reaches the role.
StartEnsure(w) ==
    /\ epc[w] = "idle"
    /\ runs[w] < MaxRuns
    /\ runs' = [runs EXCEPT ![w] = @ + 1]
    /\ epc' = [epc EXCEPT ![w] = "GetRole"]
    /\ eret' = [eret EXCEPT ![w] = "none"]
    /\ ecalls' = [ecalls EXCEPT ![w] = {}]
    /\ eanswers' = [eanswers EXCEPT ![w] = {}]
    /\ seenTrust' = [seenTrust EXCEPT ![w] = {}]
    /\ UNCHANGED <<role, profile, customTags, oldIrsaDomain, ctrlVars, faultsLeft>>

\* GetRole (part_001:133-137): NoSuchEntity, or the role.
GetRole(w) ==
    /\ epc[w] = "GetRole"
    /\ \/ ReadFails(w)
       \/ /\ NoFault
          /\ ~role.exists
          /\ Answered(w, "NoSuchEntity")
          /\ EGoto(w, "CreateRole")
          /\ UNCHANGED <<role, profile, seenTrust, ecalls>>
       \/ /\ NoFault
          /\ role.exists
          /\ seenTrust' = [seenTrust EXCEPT ![w] = role.trust]
          /\ EGoto(w, "GetInstanceProfile")
          /\ UNCHANGED <<role, profile, ecalls, eanswers>>
    /\ UNCHANGED <<customTags, oldIrsaDomain, runs, ctrlVars>>

\* CreateRole (part_001:152-156); after "already exists" the role is read.
CreateRole(w) ==
    /\ epc[w] = "CreateRole"
    /\ \/ WriteFails(w, "CreateRole")
       \/ /\ NoFault
          /\ Issued(w, "CreateRole")
          /\ LET answer == IF role.exists THEN "EntityAlreadyExists" ELSE "ok" IN
             /\ role' = IF answer = "ok"
                        THEN [exists |-> TRUE, trust |-> MakeTrust({}),
                              tags |-> TagSet("c1", customTags), policies |-> {}]
                        ELSE role
             /\ IF answer = "ok" THEN UNCHANGED eanswers ELSE Answered(w, answer)
             /\ IF ~Converges(answer) THEN EReturn(w, "err")
                ELSE IF answer = "ok" THEN EGoto(w, "CreateInstanceProfile")
                ELSE EGoto(w, "GetRole")
          /\ UNCHANGED <<profile, seenTrust>>
    /\ UNCHANGED <<customTags, oldIrsaDomain, runs, ctrlVars>>

\* EnsureInstanceProfile of a role that was there: the profile is read.
GetInstanceProfile(w) ==
    /\ epc[w] = "GetInstanceProfile"
    /\ \/ ReadFails(w)
       \/ /\ NoFault
          /\ EGoto(w, IF ~profile.exists THEN "CreateInstanceProfile"
                      ELSE IF ~profile.attached THEN "AddRoleToInstanceProfile"
                      ELSE "UpdateAssumeRolePolicy")
          /\ UNCHANGED <<role, profile, seenTrust, ecalls, eanswers>>
    /\ UNCHANGED <<customTags, oldIrsaDomain, runs, ctrlVars>>

\* CreateInstanceProfile (part_001:158-161).
CreateInstanceProfile(w) ==
    /\ epc[w] = "CreateInstanceProfile"
    /\ \/ WriteFails(w, "CreateInstanceProfile")
       \/ /\ NoFault
          /\ Issued(w, "CreateInstanceProfile")
          /\ LET answer == IF profile.exists THEN "EntityAlreadyExists" ELSE "ok" IN
             /\ profile' = IF answer = "ok"
                           THEN [exists |-> TRUE, attached |-> FALSE,
                                 tags |-> TagSet("c1", customTags)]
                           ELSE profile
             /\ IF answer = "ok" THEN UNCHANGED eanswers ELSE Answered(w, answer)
             /\ IF Converges(answer) THEN EGoto(w, "AddRoleToInstanceProfile")
                ELSE EReturn(w, "err")
          /\ UNCHANGED <<role, seenTrust>>
    /\ UNCHANGED <<customTags, oldIrsaDomain, runs, ctrlVars>>

\* AddRoleToInstanceProfile (part_001:163-166): attaching an attached role
\* changes nothing and is no error.
AddRoleToInstanceProfile(w) ==
    /\ epc[w] = "AddRoleToInstanceProfile"
    /\ \/ WriteFails(w, "AddRoleToInstanceProfile")
       \/ /\ NoFault
          /\ Issued(w, "AddRoleToInstanceProfile")
          /\ profile' = [profile EXCEPT !.attached = TRUE]
          /\ IF profile.attached THEN Answered(w, "LimitExceeded") ELSE UNCHANGED eanswers
          /\ EGoto(w, "UpdateAssumeRolePolicy")
          /\ UNCHANGED <<role, seenTrust>>
    /\ UNCHANGED <<customTags, oldIrsaDomain, runs, ctrlVars>>

\* UpdateAssumeRolePolicy (part_001:168-173): issued whether or not the
\* document of the role differs.
UpdateAssumeRolePolicy(w) ==
    /\ epc[w] = "UpdateAssumeRolePolicy"
    /\ \/ WriteFails(w, "UpdateAssumeRolePolicy")
       \/ /\ NoFault
          /\ Issued(w, "UpdateAssumeRolePolicy")
          /\ role' = [role EXCEPT !.trust = MakeTrust(seenTrust[w])]
          /\ EGoto(w, "ConfirmRole")
          /\ UNCHANGED <<profile, seenTrust, eanswers>>
    /\ UNCHANGED <<customTags, oldIrsaDomain, runs, ctrlVars>>

\* GetRole (part_001:175-181): the role as it is after the update.  In a
\* rotation the statement of the old issuer is removed next, once the
\* current issuer is read back.
ConfirmRole(w) ==
    /\ epc[w] = "ConfirmRole"
    /\ \/ ReadFails(w)
       \/ /\ NoFault
          /\ seenTrust' = [seenTrust EXCEPT ![w] = role.trust]
          /\ EGoto(w, IF Rotation /\ oldIrsaDomain \in role.trust /\ irsaDomain \in role.trust
                      THEN "RemoveOldTrust" ELSE "ListRolePolicies")
          /\ UNCHANGED <<role, profile, ecalls, eanswers>>
    /\ UNCHANGED <<customTags, oldIrsaDomain, runs, ctrlVars>>

\* The second update of a rotation: the document read back, without the
\* statement of the old issuer.
RemoveOldTrust(w) ==
    /\ epc[w] = "RemoveOldTrust"
    /\ \/ WriteFails(w, "UpdateAssumeRolePolicy")
       \/ /\ NoFault
          /\ Issued(w, "UpdateAssumeRolePolicy")
          /\ role' = [role EXCEPT !.trust = seenTrust[w] \ {oldIrsaDomain}]
          /\ EGoto(w, "ListRolePolicies")
          /\ UNCHANGED <<profile, seenTrust, eanswers>>
    /\ UNCHANGED <<customTags, oldIrsaDomain, runs, ctrlVars>>

\* ListRolePolicies (part_001:183-188).
ListRolePolicies(w) ==
    /\ epc[w] = "ListRolePolicies"
    /\ \/ ReadFails(w)
       \/ /\ NoFault
          /\ IF NeedsPut(role.policies)
             THEN EGoto(w, "PutRolePolicy")
             ELSE EReturn(w, "ok")
          /\ UNCHANGED <<role, profile, seenTrust, ecalls, eanswers>>
    /\ UNCHANGED <<customTags, oldIrsaDomain, runs, ctrlVars>>

\* PutRolePolicy (part_001:190-194): the policy of that name is set.
PutRolePolicy(w) ==
    /\ epc[w] = "PutRolePolicy"
    /\ \/ WriteFails(w, "PutRolePolicy")
       \/ /\ NoFault
          /\ Issued(w, "PutRolePolicy")
          /\ role' = [role EXCEPT !.policies =
                {pl \in @ : pl[1] # IRSAPolicy[1]} \cup {IRSAPolicy}]
          /\ EReturn(w, "ok")
          /\ UNCHANGED <<profile, seenTrust, eanswers>>
    /\ UNCHANGED <<customTags, oldIrsaDomain, runs, ctrlVars>>

\* The role and its profile before the reconciles: not there; the role
\* alone, left by a reconcile that stopped after CreateRole; or complete,
\* with the policy as wanted or of an older version.  A role that is there
\* trusts the current issuer or, in a rotation, the old one.
InitRole ==
    \E trust \in {{irsaDomain}} \cup (IF Rotation THEN {{oldIrsaDomain}} ELSE {}) :
        LET made == [exists |-> TRUE, trust |-> trust,
                     tags |-> TagSet("c1", customTags), policies |-> {}]
            full == [exists |-> TRUE, attached |-> TRUE, tags |-> TagSet("c1", customTags)]
        IN
        \/ role = NoRole /\ profile = NoProfile
        \/ role = made /\ profile = NoProfile
        \/ role = [made EXCEPT !.policies = {IRSAPolicy}] /\ profile = full
        \/ role = [made EXCEPT !.policies = {StalePolicy}] /\ profile = full

InitIAM ==
    /\ customTags \in CustomTagSets
    /\ oldIrsaDomain \in OldIrsaDomains
    /\ InitRole
    /\ epc = [w \in Workers |-> "idle"]
    /\ seenTrust = [w \in Workers |-> {}]
    /\ ecalls = [w \in Workers |-> {}]
    /\ eanswers = [w \in Workers |-> {}]
    /\ eret = [w \in Workers |-> "none"]
    /\ runs = [w \in Workers |-> 0]
    /\ store = [o \in Objects |-> Gone]
    /\ tmplCfg = [p \in Procs |-> NoCfg]
    /\ enableRoute53Role = TRUE
    /\ eksRoleName = FALSE
    /\ iamRoles = {"role1"}
    /\ irsaRoles = {}
    /\ InitLocal
    /\ faultsLeft = MaxFaults

NextIAM ==
    \E w \in Workers :
        \/ StartEnsure(w)
        \/ GetRole(w)
        \/ CreateRole(w)
        \/ GetInstanceProfile(w)
        \/ CreateInstanceProfile(w)
        \/ AddRoleToInstanceProfile(w)
        \/ UpdateAssumeRolePolicy(w)
        \/ ConfirmRole(w)
        \/ RemoveOldTrust(w)
        \/ ListRolePolicies(w)
        \/ PutRolePolicy(w)

SpecIAM == InitIAM /\ [][NextIAM]_vars

(***************************************************************************)
(* C13.  Rotation of the issuer domain.                                    *)
(***************************************************************************)
\* C13: in a rotation the trust policy of the role trusts the old or the
\* current issuer in every state, and a step that takes the statement of
\* the old issuer away is taken by a worker that has read the current
\* issuer in the role, from a role that trusts the current issuer and
\* goes on trusting it.
C13_RotationKeepsTrust ==
    /\ [](Rotation /\ role.exists => role.trust \cap {oldIrsaDomain, irsaDomain} # {})
    /\ [][(Rotation /\ oldIrsaDomain \in role.trust /\ oldIrsaDomain \notin role'.trust) =>
            /\ irsaDomain \in role.trust
            /\ irsaDomain \in role'.trust
            /\ \E w \in Workers :
                  /\ epc[w] \in {"RemoveOldTrust", "UpdateAssumeRolePolicy"}
                  /\ epc'[w] # epc[w]
                  /\ irsaDomain \in seenTrust[w]]_vars

\* A worker has read a role that trusts both issuers and has removed the
\* statement of the old one.
C13_Witness ==
    /\ Rotation
    /\ role.trust = {irsaDomain}
    /\ \E w \in Workers :
          /\ epc[w] = "ListRolePolicies"
          /\ seenTrust[w] = {oldIrsaDomain, irsaDomain}
          /\ ecalls[w] = {"UpdateAssumeRolePolicy"}

(***************************************************************************)
(* C14.  Two reconciles race to create the role.                           *)
(***************************************************************************)
\* The role as every reconcile wants it.
Converged ==
    /\ role = [exists |-> TRUE, trust |-> {irsaDomain},
               tags |-> TagSet("c1", customTags), policies |-> {IRSAPolicy}]
    /\ profile = [exists |-> TRUE, attached |-> TRUE, tags |-> TagSet("c1", customTags)]

\* C14: a run returns an error only when a call failed for a reason of its
\* own, never because the role or the profile was there already; and when
\* the last runs of both workers have returned without error, the role and
\* its profile are as wanted, whichever worker created them.
C14_CreateRaceConverges ==
    /\ \A w \in Workers :
          eret[w] = "err" => "RemoteTransient" \in eanswers[w]
    /\ (\A w \in Workers : epc[w] = "idle" /\ eret[w] = "ok") => Converged

\* Both workers have asked for the role to be created, one was told that
\* it exists already, and both have returned without error.
C14_Witness ==
    /\ \A w \in Workers :
          /\ epc[w] = "idle"
          /\ eret[w] = "ok"
          /\ "CreateRole" \in ecalls[w]
    /\ \E w \in Workers : "EntityAlreadyExists" \in eanswers[w]
    /\ Converged

(***************************************************************************)
(* C15.  Failures are returned.                                            *)
(***************************************************************************)
\* The answers of a patch or a re-read that are failures other than
\* NotFound.
Failures == {"Invalid", "Conflict", "ServerError", "GetError"}

ReturnedError(p) == pc[p] = "done" /\ result[p] = "err"

\* C15, as stated: a reconcile in which a call failed, a finalizer patch
\* included, has returned an error and stands after its last step.
C15_EveryFailureReturned ==
    \A p \in Procs :
        (failed[p] # {} \/ (rf[p].answers \cup addf[p].answers) \cap Failures # {}) =>
            ReturnedError(p)

\* C15, as the code has it: a reconcile in which a call failed has returned
\* an error with that call as its last step, with one exception: a patch of
\* removeFinalizer that is answered Invalid while attempts are left is
\* followed by a re-read of the object and the next attempt.
C15_FailureEndsReconcile ==
    \A p \in Procs :
        /\ failed[p] # {} => ReturnedError(p) /\ Cardinality(failed[p]) = 1
        /\ (rf[p].answers \cup addf[p].answers) \cap (Failures \ {"Invalid"}) # {} =>
              ReturnedError(p)
        /\ "Invalid" \in addf[p].answers => ReturnedError(p)
        /\ "Invalid" \in rf[p].answers =>
              \/ ReturnedError(p)
              \/ pc[p] = "rf_get"
              \/ rf[p].rereads >= 1
        /\ ReturnedError(p) => failed[p] # {}

\* One reconcile had a patch of removeFinalizer answered Invalid, tried
\* again and removed the finalizer; another has returned the error of a
\* call that failed.
C15_Witness ==
    \E p, q \in Procs :
        /\ "Invalid" \in rf[p].answers
        /\ rf[p].ret = "nil"
        /\ failed[p] = {}
        /\ failed[q] # {}
        /\ ReturnedError(q)

(***************************************************************************)
(* C16.  Objects that are not found during deletion.                       *)
(***************************************************************************)
\* The reconcile of t is a deletion reconcile: it is about to read a
\* template that has a deletion timestamp, or it is past the guard.
InDeletion(t) ==
    \/ pc[t] = "done" /\ Deleting(t)
    \/ pc[t] # "done" /\ guard[t] \in {"used", "free"}

\* C16, as stated: a step of a deletion reconcile in which no call fails
\* for a reason of its own does not make the reconcile return an error;
\* what such a step can find is only that an object is absent.
C16_NotFoundIsSuccess ==
    [][\A t \in Tmpls :
          (InDeletion(t) /\ faultsLeft' = faultsLeft /\ result[t] # "err") =>
              result'[t] # "err"]_vars

(***************************************************************************)
(* C17.  A catalog role that is absent is created.                         *)
(***************************************************************************)
\* The mutating calls the test expects of a reconcile that finds the role
\* absent (part_001:141-201).
CreateCalls ==
    {"CreateRole", "CreateInstanceProfile", "AddRoleToInstanceProfile",
     "UpdateAssumeRolePolicy", "PutRolePolicy"}

Canonical(tags) ==
    /\ <<OwnedKey, "">> \in tags
    /\ <<ClusterKey("c1"), "owned">> \in tags
    /\ \A kv \in customTags : kv[1] \notin Keys(ReservedTags("c1")) => kv \in tags
    /\ \A a, b \in tags : a[1] = b[1] => a = b
    /\ tags \subseteq ReservedTags("c1") \cup customTags
    /\ customTags = {} => tags = ReservedTags("c1")

\* C18: the role and the instance profile carry the ownership marker with
\* the empty value, the marker of the cluster with the value "owned" and
\* every custom tag whose key is not the key of a marker, one value a key
\* and nothing else; with no custom tags these are the two markers.
C18_CanonicalTags ==
    /\ role.exists => Canonical(role.tags)
    /\ profile.exists => Canonical(profile.tags)

\* A reconcile has created the role and the profile with custom tags of
\* which one has the key of a marker.
C18_Witness ==
    /\ customTags = {<<ClusterKey("c1"), "shared">>, <<TeamKey, "a">>}
    /\ role.tags = ReservedTags("c1") \cup {<<TeamKey, "a">>}
    /\ profile.tags = role.tags
    /\ \E w \in Workers :
          /\ eanswers[w] = {"NoSuchEntity"}
          /\ {"CreateRole", "CreateInstanceProfile"} \subseteq ecalls[w]

(***************************************************************************)
(* C19.  Idempotence.                                                      *)
(***************************************************************************)
\* C19, as stated: the second run of a worker, after a first one that
\* returned without error and with nothing else touching the role, issues
\* no mutating call; and UpdateAssumeRolePolicy is issued only for a role
\* whose trust policy differs from the document that is written, so not
\* in the run that has just created the role with that document.
C19_SecondRunOnlyReads ==
    /\ [](\A w \in Workers :
            (runs[w] = 2 /\ faultsLeft = MaxFaults /\ \A v \in Workers \ {w} : runs[v] = 0) =>
                ecalls[w] = {})
    /\ [][\A w \in Workers :
            (/\ epc[w] = "UpdateAssumeRolePolicy"
             /\ epc'[w] = "ConfirmRole"
             /\ "CreateRole" \in ecalls[w]) =>
                role.trust # role'.trust]_vars

(***************************************************************************)
(* C20.  Deletion after partial progress, with reconciles that go on.      *)
(***************************************************************************)
\* What can be left of the deletion of tmplA, the one template of its
\* cluster, by a reconcile that failed or stopped: nothing done; the role
\* deleted; the IRSA roles deleted too; the controller's finalizer off the
\* AWSCluster as well.  The AWSCluster is being deleted with its cluster,
\* or not yet.
InitLive ==
    /\ tmplCfg = [p \in Procs |->
          IF p = "tmplA" THEN Cfg(TRUE, ControlPlaneRole, "role1") ELSE NoCfg]
    /\ enableRoute53Role = TRUE
    /\ eksRoleName = FALSE
    /\ \E done \in 0..3, ph \in {"live", "deleting"} :
          /\ iamRoles = IF done >= 1 THEN {} ELSE {"role1"}
          /\ irsaRoles = IF done >= 2 THEN {} ELSE {ClusterOf("tmplA")}
          /\ store = [TemplateStore EXCEPT
                !["tmplA"] = [phase |-> "deleting", fins |-> {FinalizerName(ControlPlaneRole)}],
                !["tmplB"] = Gone,
                ![AWSCluster] = [phase |-> ph,
                                 fins |-> IF done >= 3
                                          THEN {OtherFinalizer}
                                          ELSE {FinalizerName(ControlPlaneRole), OtherFinalizer}]]
    /\ InitLocal
    /\ faultsLeft = MaxFaults
    /\ NoEnsure

\* The steps of the reconciles of tmplA.
TemplateStep ==
    \/ Reconcile("tmplA")
    \/ reconcileDelete("tmplA")
    \/ delete_role("tmplA")
    \/ delete_irsa("tmplA")
    \/ delete_cluster("tmplA")
    \/ delete_template("tmplA")
    \/ delete_configmap("tmplA")
    \/ delete_done("tmplA")
    \/ rf_patch("tmplA")
    \/ rf_get("tmplA")

NextLive ==
    \/ TemplateStep
    \/ \E o \in {AWSCluster, ConfigMap} : EnvDelete(o)
    \/ EnvReleaseOther(AWSCluster)

\* The template is requeued after every error and a reconcile that has
\* started goes on; calls fail spontaneously MaxFaults times at most.
SpecLive == InitLive /\ [][NextLive]_vars /\ WF_vars(TemplateStep)

\* C20, as stated: the template that is being deleted is in the end
\* without the finalizer, and so gone from the store.
C20_DeletionCompletes == Deleting("tmplA") ~> ~Exists("tmplA")

(***************************************************************************)
(* C21: the finalizers after the template is gone (main.go:301-339).       *)
(***************************************************************************)

\* The objects other than the template that reconcileDelete releases.
Released == {AWSCluster, ConfigMap}

\* The objects that still carry the controller's finalizer.
Holding == {o \in Released : FinalizerName(ControlPlaneRole) \in store[o].fins}

\* C21, as stated: once the controller has removed the template's
\* finalizer (the template is then gone from the store), the AWSCluster
\* and the cluster-values ConfigMap are without the controller's
\* finalizer, or are so in the end.
C21_NoFinalizerLeak == ~Exists("tmplA") ~> (Holding = {})

(***************************************************************************)
(* C22: the finalizer is in place before the roles are reconciled          *)
(* (main.go:342-367, part_000:141-179).                                    *)
(***************************************************************************)

\* The finalizer a reconciler puts on its object.
OwnFinalizer(p) ==
    FinalizerName(IF p = EKS THEN IRSARole ELSE ControlPlaneRole)

\* The calls of the normal path that create or change roles.
RoleReconciles == {"ReconcileRole", "ReconcileRolesForIRSA"}

\* The finalizer-add patch of the reconcile of p failed.
AddPatchFailed(p) == addf[p].answers \ {"ok"} # {}

\* C22: a step that calls ReconcileRole or ReconcileRolesForIRSA is taken
\* with the reconciler's finalizer on the object in the store; a reconcile
\* whose finalizer-add patch failed has returned an error and has made no
\* IAM call.
C22_FinalizerBeforeRoles ==
    /\ [](\A p \in Procs :
            AddPatchFailed(p) => ReturnedError(p) /\ calls[p] = {})
    /\ [][\A p \in Procs :
            (calls'[p] \ calls[p]) \cap RoleReconciles # {}
               => OwnFinalizer(p) \in store[p].fins]_vars

\* A reconcile has added the finalizer and called ReconcileRole, another
\* one has returned the error of its finalizer-add patch.
C22_Witness ==
    \E p, q \in Procs :
       /\ "ok" \in addf[p].answers
       /\ "ReconcileRole" \in calls[p]
       /\ AddPatchFailed(q)
       /\ ReturnedError(q)

(***************************************************************************)
(* C23: the two paths (main.go:275-278, 281-403, part_000:119-180).        *)
(***************************************************************************)

\* Where a reconcile is in reconcileNormal, or in the else branch of the
\* AWSManagedControlPlane reconciler.
NormalPath == {"reconcileNormal", "normal_role", "normal_irsa", "eks_normal", "eks_irsa"}

\* Where a reconcile is in reconcileDelete and removeFinalizer, or in the
\* deletion branch of the AWSManagedControlPlane reconciler.
DeletePath ==
    {"reconcileDelete", "delete_role", "delete_irsa", "delete_cluster",
     "delete_template", "delete_configmap", "delete_done", "rf_patch", "rf_get",
     "eks_delete", "eks_removeFinalizer"}

\* The reconcile of p has sent a finalizer-add patch or has called
\* ReconcileRole or ReconcileRolesForIRSA.
DidNormal(p) == addf[p].requests > 0 \/ calls[p] \cap RoleReconciles # {}

\* The reconcile of p has asked the guard, has called DeleteRole or
\* DeleteRolesForIRSA or has sent a patch that removes a finalizer.
DidDelete(p) ==
    \/ guard[p] # "none"
    \/ calls[p] \cap RoleDeletions # {}
    \/ patched[p] # {}
    \/ rf[p].requests > 0

\* C23: a reconcile enters the deletion path only for an object it read
\* with a deletion timestamp and the normal path only for one without, it
\* never changes path, and in the deletion path it adds no finalizer and
\* reconciles no role, in the normal path it deletes no role and removes
\* no finalizer.
C23_PathsExclusive ==
    /\ [](\A p \in Procs :
            /\ pc[p] \in DeletePath => ~DidNormal(p)
            /\ pc[p] \in NormalPath => ~DidDelete(p)
            /\ ~(DidNormal(p) /\ DidDelete(p)))
    /\ [][\A p \in Procs :
            /\ pc[p] = "done" /\ pc'[p] \in DeletePath => Deleting(p)
            /\ pc[p] = "done" /\ pc'[p] \in NormalPath => Exists(p) /\ ~Deleting(p)
            /\ pc[p] \in DeletePath => pc'[p] \in DeletePath \cup {"done"}
            /\ pc[p] \in NormalPath => pc'[p] \in NormalPath \cup {"done"}]_vars

\* One object is being deleted and its reconcile has removed a finalizer,
\* another one is live and its reconcile has added the finalizer and
\* called ReconcileRole.
C23_Witness ==
    \E p, q \in Procs :
       /\ Deleting(p)
       /\ pc[p] \in DeletePath
       /\ patched[p] # {}
       /\ Exists(q)
       /\ ~Deleting(q)
       /\ addf[q].requests > 0
       /\ "ReconcileRole" \in calls[q]

(***************************************************************************)
(* C24: the templates Reconcile ignores (main.go:203-238).                 *)
(***************************************************************************)

\* What tmplA is in SpecIgnored: a template without the watch-filter
\* label, with neither role label or with an empty instance profile, live
\* or being deleted, with or without finalizers; or a template the
\* controller would reconcile, which is not in the store.
IgnoredTemplates ==
    ({ Cfg(FALSE, ControlPlaneRole, "role1"),
       Cfg(TRUE, "none", "role1"),
       Cfg(TRUE, ControlPlaneRole, "") }
     \X { Gone,
          Live({}),
          Live({FinalizerName(ControlPlaneRole), OtherFinalizer}),
          [phase |-> "deleting", fins |-> {FinalizerName(ControlPlaneRole), OtherFinalizer}] })
    \cup { <<Cfg(TRUE, ControlPlaneRole, "role1"), Gone>> }

\* tmplB is a control-plane template of the same cluster.
InitIgnored ==
    /\ \E tm \in IgnoredTemplates :
          /\ tmplCfg = [p \in Procs |->
                IF p = "tmplA" THEN tm[1]
                ELSE IF p = "tmplB" THEN Cfg(TRUE, ControlPlaneRole, "role1") ELSE NoCfg]
          /\ store = [TemplateStore EXCEPT !["tmplA"] = tm[2]]
    /\ enableRoute53Role = TRUE
    /\ eksRoleName = FALSE
    /\ \E r \in {{}, {"role1"}} : iamRoles = r
    /\ irsaRoles = {}
    /\ InitLocal
    /\ faultsLeft = MaxFaults
    /\ NoEnsure

NextIgnored ==
    \/ \E t \in Tmpls :
          \/ Reconcile(t)
          \/ reconcileDelete(t)
          \/ delete_role(t)
          \/ delete_irsa(t)
          \/ delete_cluster(t)
          \/ delete_template(t)
          \/ delete_configmap(t)
          \/ delete_done(t)
          \/ reconcileNormal(t)
          \/ normal_role(t)
          \/ normal_irsa(t)
          \/ rf_patch(t)
          \/ rf_get(t)
    \/ \E o \in Tmpls \cup {AWSCluster, ConfigMap} : EnvDelete(o)
    \/ \E o \in Tmpls \cup {AWSCluster} : EnvReleaseOther(o)

SpecIgnored == InitIgnored /\ [][NextIgnored]_vars

\* What a reconcile of p keeps for itself.
LocalOf(p) ==
    <<pc[p], mem[p], obj[p], i[p], guard[p], calls[p], patched[p],
      result[p], failed[p], rf[p], addf[p]>>

\* The template is absent, or the controller ignores it.
NotReconciled(t) ==
    \/ ~Exists(t)
    \/ ~tmplCfg[t].watch
    \/ RoleOf(t) \notin {ControlPlaneRole, BastionRole}
    \/ tmplCfg[t].profile = ""

FoundReleased(p) == rf[p].target # "none" /\ rf[p].iterations = 0

\* C25: the patch request that is answered ok is the last request of
\* removeFinalizer, no re-read follows it and removeFinalizer returns nil
\* with it; a removal whose first request is answered ok has sent one
\* request and has read nothing again; on an object without the finalizer
\* removeFinalizer returns nil and sends nothing.
C25_StopsAtSuccess ==
    /\ [](\A p \in Procs :
            /\ "ok" \in rf[p].answers =>
                  /\ rf[p].ret = "nil"
                  /\ rf[p].requests = rf[p].rereads + 1
            /\ (rf[p].ret = "nil" /\ rf[p].rereads = 0 /\ ~FoundReleased(p)) =>
                  /\ rf[p].requests = 1
                  /\ rf[p].answers = {"ok"}
            /\ FoundReleased(p) =>
                  /\ rf[p].ret = "nil"
                  /\ rf[p].requests = 0
                  /\ rf[p].rereads = 0)
    /\ [][\A p \in Procs :
            "ok" \in rf[p].answers =>
                \/ rf'[p] = rf[p]
                \/ rf'[p].requests = 0 /\ rf'[p].rereads = 0]_vars

\* The removal from the ConfigMap has succeeded with its first request,
\* and the removeFinalizer of another reconcile has found the finalizer
\* missing.
C25_Witness ==
    \E p \in Procs :
       /\ rf[p].ret = "nil"
       /\ rf[p].answers = {"ok"}
       /\ rf[p].requests = 1
       /\ rf[p].rereads = 0
       /\ rf[p].target = ConfigMap
       /\ \E q \in Procs \ {p} : FoundReleased(q) /\ rf[q].ret = "nil"

(***************************************************************************)
(* C26: removeFinalizer beside other controllers (main.go:418-443).        *)
(***************************************************************************)

\* Another controller puts its finalizer on an object that is not being
\* deleted.
EnvAddOther(o) ==
    /\ store[o].phase = "live"
    /\ OtherFinalizer \notin store[o].fins
    /\ store' = [store EXCEPT ![o].fins = @ \cup {OtherFinalizer}]
    /\ UNCHANGED <<tmplCfg, enableRoute53Role, eksRoleName, iamVars, localVars, histVars, faultsLeft>>
    /\ UNCHANGED ensVars

\* Another controller takes its finalizer off an object that is not being
\* deleted.
EnvDropOther(o) ==
    /\ store[o].phase = "live"
    /\ OtherFinalizer \in store[o].fins
    /\ store' = [store EXCEPT ![o].fins = @ \ {OtherFinalizer}]
    /\ UNCHANGED <<tmplCfg, enableRoute53Role, eksRoleName, iamVars, localVars, histVars, faultsLeft>>
    /\ UNCHANGED ensVars

\* The deletion reconcile of SpecRF, beside controllers that add and
\* remove their own finalizer at any time.
NextRace ==
    \/ NextRF
    \/ \E o \in {AWSCluster, ConfigMap} : EnvAddOther(o)
    \/ \E o \in {AWSCluster, ConfigMap} : EnvDropOther(o)

SpecRace == InitRF /\ [][NextRace]_vars

\* C26, as stated: a patch request of removeFinalizer leaves every
\* object's finalizers as they are in the store, but for the controller's
\* finalizer on the object it is called for: it puts no finalizer back and
\* takes no other finalizer away.
C26_RemovesOnlyOwn ==
    [][\A p \in Procs :
         (pc[p] = "rf_patch" /\ rf'[p].requests > rf[p].requests) =>
            \A o \in Objects :
               \/ store'[o].fins = store[o].fins
               \/ /\ o = obj[p].name
                  /\ store'[o].fins = store[o].fins \ {FinalizerName(ControlPlaneRole)}]_vars

(***************************************************************************)
(* C27: what the AWSManagedControlPlane reconciler returns                 *)
(* (part_000:53-79, 119-185).                                              *)
(***************************************************************************)

\* Where a reconcile of the AWSManagedControlPlane is after its lookups.
EKSPath == {"eks_delete", "eks_removeFinalizer", "eks_normal", "eks_irsa"}

\* C27, as stated: a reconcile of the AWSManagedControlPlane that has
\* returned success without a requeue has found the object absent.
C27_OnlyAbsentUnrequeued ==
    (pc[EKS] = "done" /\ result[EKS] = "ok") => ~Exists(EKS)

\* C27: a reconcile that comes to the end of the deletion or of the normal
\* branch returns an immediate requeue or an error; it returns a requeue
\* after one minute for an object with the watch-filter label and no role
\* name; it returns without a requeue for an object that is absent and
\* for an object without the watch-filter label, which exists.
C27_RequeueUnlessAbsentOrUnwatched ==
    /\ []((pc[EKS] = "done" /\ result[EKS] = "ok")
             => ~Exists(EKS) \/ ~tmplCfg[EKS].watch)
    /\ [][(pc'[EKS] = "done" /\ LocalOf(EKS)' # LocalOf(EKS)) =>
            /\ pc[EKS] \in EKSPath => result'[EKS] \in {"requeue", "err"}
            /\ result'[EKS] = "requeue" => pc[EKS] \in {"eks_removeFinalizer", "eks_irsa"}
            /\ result'[EKS] = "requeueAfter" =>
                  /\ pc[EKS] = "done"
                  /\ Exists(EKS)
                  /\ tmplCfg[EKS].watch
                  /\ ~eksRoleName
            /\ result'[EKS] = "ok" =>
                  /\ pc[EKS] = "done"
                  /\ ~Exists(EKS) \/ ~tmplCfg[EKS].watch]_vars

\* The reconcile of an AWSManagedControlPlane that is being deleted has
\* removed the finalizer and asked for a requeue; the object is still in
\* the store, held by another finalizer.
C27_Witness ==
    /\ Deleting(EKS)
    /\ EKS \in patched[EKS]
    /\ FinalizerName(IRSARole) \notin store[EKS].fins
    /\ pc[EKS] = "done"
    /\ result[EKS] = "requeue"

=============================================================================
